---- MODULE Spec2Model ----
(***************************************************************************)
(* Model of terraform-provider-st-azuread: the failure classifier          *)
(* (handleAPIError / isAbleToRetry), the backoff.Retry executor as the     *)
(* resources configure it (MaxElapsedTime = 30 s), and the lifecycle       *)
(* handlers of the authentication method policy, the authentication        *)
(* strengths data source and the named location resource.                  *)
(*                                                                         *)
(* Time is in milliseconds.  One behaviour is one invocation of one        *)
(* handler; the remote API answers its successive calls from `script`      *)
(* (the last entry repeats for ever).                                      *)
(***************************************************************************)
EXTENDS Integers, Sequences, FiniteSets, TLC

VARIABLES
    handler,    \* the handler being run
    pc,         \* its position
    site,       \* the backoff.Retry call site that is active
    script,     \* outcomes the remote API gives to the calls still to come
    script0,    \* the script the invocation started with
    lat,        \* duration of one remote call
    jitter,     \* how this behaviour draws the random factor of a backoff interval
    now,        \* wall clock
    plan,       \* req.Plan (desired state)
    prior,      \* req.State (recorded state before the handler)
    tfstate,    \* resp.State as written by the handler
    stateSet,   \* whether resp.State.Set was called
    diag,       \* error diagnostics surfaced to the caller
    ampRemote,  \* remote authentication method configuration
    nlRemote,   \* remote named locations
    asRemote,   \* remote authentication strength policies
    grRemote,   \* remote groups
    cc,         \* two Create invocations of named locations running concurrently
    log,        \* remote calls issued so far, in order
    bo,         \* the ExponentialBackOff of the active Retry
    wait,       \* backoff interval being waited
    tried,      \* what each invocation of the operation by the active Retry got
    nwaits,     \* backoff waits of the active Retry
    waited,     \* time spent in backoff waits by the active Retry
    lastDur,    \* duration of the last invocation of the operation
    ret,        \* what backoff.Retry returned
    del,        \* loop state of the untrust PATCH loop in Delete
    patchOkAt,  \* time the untrust PATCH succeeded (-1: never)
    deleteAt,   \* time the DELETE call was issued (-1: never)
    probeErr,   \* classifier input under test
    probeRes    \* classifier output under test

vars == << handler, pc, site, script, script0, lat, jitter, now, plan, prior, tfstate,
           stateSet, diag, ampRemote, nlRemote, asRemote, grRemote, cc, log, bo, wait,
           tried, nwaits, waited, lastDur, ret, del, patchOkAt, deleteAt, probeErr,
           probeRes >>

-----------------------------------------------------------------------------
(* Bounds of the model *)

\* longest script of remote outcomes (its last entry repeats)
MaxScript == 2
\* duration of a slow remote call, in ms
CallLatency == 400
\* largest status code fed to the classifier
MaxStatusCode == 599

-----------------------------------------------------------------------------
(* Errors and their classification *)

ERR_TOO_MANY_REQ == 429
ERR_INTERNAL_ERROR == 500
ERR_SERVICE_UNAVAILABLE == 503
ERR_BANDWITH_LIMIT_EXCEEDED == 509

\* outcome of a remote call: success, an *odataerrors.ODataError carrying a
\* status code, or any other error (no status code to extract)
\* (a successful create may, as far as the code knows, answer without an ID)
OK == [ok |-> TRUE, odata |-> FALSE, code |-> 0, withID |-> TRUE, applied |-> TRUE]
OKWithoutID ==
    [ok |-> TRUE, odata |-> FALSE, code |-> 0, withID |-> FALSE, applied |-> TRUE]
ODataError(c) ==
    [ok |-> FALSE, odata |-> TRUE, code |-> c, withID |-> FALSE, applied |-> FALSE]
PlainError ==
    [ok |-> FALSE, odata |-> FALSE, code |-> 0, withID |-> FALSE, applied |-> FALSE]
\* the remote carried the request out and the answer was lost on the way: the
\* SDK returns an error without a status code
LostAnswer ==
    [ok |-> FALSE, odata |-> FALSE, code |-> 0, withID |-> FALSE, applied |-> TRUE]

\* a classifier that misses the last of the four codes
isAbleToRetryNo509(errCode) ==
    \/ errCode = ERR_TOO_MANY_REQ
    \/ errCode = ERR_INTERNAL_ERROR
    \/ errCode = ERR_SERVICE_UNAVAILABLE

\* a classifier that retries server-side failures only
isAbleToRetryServerOnly(errCode) ==
    \/ errCode = ERR_INTERNAL_ERROR
    \/ errCode = ERR_SERVICE_UNAVAILABLE
    \/ errCode = ERR_BANDWITH_LIMIT_EXCEEDED

isAbleToRetry(errCode) ==
    CASE errCode = ERR_TOO_MANY_REQ -> TRUE
      [] errCode = ERR_INTERNAL_ERROR -> TRUE
      [] errCode = ERR_SERVICE_UNAVAILABLE -> TRUE
      [] errCode = ERR_BANDWITH_LIMIT_EXCEEDED -> TRUE
      [] OTHER -> FALSE

\* backoff.Permanent(err) wraps err in a *PermanentError; a bare err is retried
Permanent(err) == [permanent |-> TRUE, err |-> err]
Bare(err) == [permanent |-> FALSE, err |-> err]

\* a classifier that forgets to wrap errors that are no ODataError
handleAPIErrorBareElse(err) ==
    IF err.odata
        THEN IF isAbleToRetry(err.code) THEN Bare(err) ELSE Permanent(err)
        ELSE Bare(err)

\* a classifier that treats every ODataError as final
handleAPIErrorAllPermanent(err) == Permanent(err)

handleAPIError(err) ==
    IF err.odata
        THEN IF isAbleToRetry(err.code) THEN Bare(err) ELSE Permanent(err)
        ELSE Permanent(err)

\* the closures of the named location resource return the API error as it is
\* (the one classification they attempt is of a *errors.TencentCloudSDKError,
\* which the Graph client never returns)
rawAPIError(err) == Bare(err)

-----------------------------------------------------------------------------
(* The ExponentialBackOff policy and the Retry loop of cenkalti/backoff *)

DefaultInitialInterval == 500
DefaultMaxInterval == 60000
\* a budget of three seconds
MaxElapsedTimeShort == 3 * 1000
\* the 15 minutes a policy is left with when MaxElapsedTime is not assigned
MaxElapsedTimeUnset == 15 * 60 * 1000
MaxElapsedTime == 30000

\* b.Reset()
ResetBackOff(t) == [start |-> t, cur |-> DefaultInitialInterval]

\* incrementCurrentInterval: multiplier 1.5, capped at MaxInterval
IncrementCurrentInterval(cur) ==
    IF 3 * cur >= 2 * DefaultMaxInterval THEN DefaultMaxInterval ELSE (3 * cur) \div 2

\* getRandomValueFromInterval with RandomizationFactor 0.5: the two ends of
\* [cur - cur/2, cur + cur/2].  A behaviour draws the end anew at every wait
\* ("each") or keeps to one end ("low", "high").
RandomizedIntervals(cur, j) ==
    CASE j = "low" -> {cur - (cur \div 2)}
      [] j = "high" -> {cur + (cur \div 2)}
      [] OTHER -> {cur - (cur \div 2), cur + (cur \div 2)}

\* b.GetElapsedTime() > b.MaxElapsedTime: NextBackOff returns Stop
BackOffStops(b, t) == t - b.start > MaxElapsedTime

NoRet == [returned |-> FALSE, failed |-> FALSE, err |-> OK, exhausted |-> FALSE]

-----------------------------------------------------------------------------
(* Inputs: remote behaviour, desired state, recorded state *)

\* outcomes a scripted remote call can have
Outcomes ==
    {OK, OKWithoutID, ODataError(ERR_TOO_MANY_REQ), ODataError(400), PlainError,
     LostAnswer}

SeqsUpTo(S, n) == UNION {[1..k -> S] : k \in 1..n}

\* a script is non-empty and its last entry repeats, so a script whose last two
\* entries are equal is the same behaviour as the script without the last one
Scripts ==
    {s \in SeqsUpTo(Outcomes, MaxScript) :
        Len(s) = 1 \/ s[Len(s)] # s[Len(s) - 1]}

\* the list call is answered, the answer of the create call is lost, and the
\* calls after it are answered
LostAnswerScripts == {<<OK, LostAnswer, OK>>}

Latencies == {0, CallLatency}

NullList == [null |-> TRUE, ids |-> << >>]
ListOf(ids) == [null |-> FALSE, ids |-> ids]

\* authMethodPolicyResourceModel
AMPModel(t, s, x) == [type |-> t, state |-> s, excluded |-> x]
NoAMP == AMPModel("", "", NullList)

AMPPlans ==
    {AMPModel("Fido2", "enabled", NullList),
     AMPModel("Fido2", "enabled", ListOf(<< >>)),
     AMPModel("Fido2", "disabled", ListOf(<<"g1">>)),
     AMPModel("Bogus", "enabled", NullList),
     AMPModel("Fido2", "bogus", NullList)}

AMPPriors == {AMPModel("Fido2", "enabled", ListOf(<<"g2">>))}

\* remote authenticationMethodConfiguration of the one type the model follows
AMPRemote(s, targets) == [state |-> s, excludeTargets |-> targets]

\* remote authentication strength policies, as the list call returns them
ASPolicies ==
    <<[id |-> "p1", name |-> "x"], [id |-> "p2", name |-> "y"],
      [id |-> "p3", name |-> "x"]>>

\* authStrengthsDataSourceModel: the 'ids' and 'names' of the configuration
ASModel(ids, names) == [ids |-> ids, names |-> names]
ASPlans ==
    {ASModel(NullList, NullList),
     ASModel(ListOf(<<"p2">>), NullList),
     ASModel(ListOf(<<"p3", "p1">>), ListOf(<< >>)),
     ASModel(ListOf(<< >>), ListOf(<<"y">>)),
     ASModel(NullList, ListOf(<<"x", "z">>)),
     ASModel(ListOf(<<"p1">>), ListOf(<<"y">>))}

\* ipBlock and countryBlock of namedLocationResourceModel; a nil block is absent
IPBlock(ranges, trusted) == [present |-> TRUE, ranges |-> ranges, trusted |-> trusted]
NoIP == [present |-> FALSE, ranges |-> << >>, trusted |-> "null"]
CountryBlock(cs, lookup, unk) ==
    [present |-> TRUE, countries |-> cs, lookup |-> lookup, includeUnknown |-> unk]
NoCountry ==
    [present |-> FALSE, countries |-> << >>, lookup |-> "null", includeUnknown |-> "null"]

\* namedLocationResourceModel
NLModel(id, name, ip, country) ==
    [id |-> id, name |-> name, ip |-> ip, country |-> country]
UnknownID == << >>
NoNL == NLModel(UnknownID, "", NoIP, NoCountry)

\* "/identity/conditionalAccess/namedLocations/" + id, and the last part of
\* strings.Split(fullID, "/")
FullID(id) == <<"identity", "conditionalAccess", "namedLocations", id>>
LastPart(fullID) == IF Len(fullID) = 0 THEN "" ELSE fullID[Len(fullID)]

\* net.ParseCIDR succeeds
ValidCIDR(c) == c \in {"10.0.0.0/8", "2001:db8::/32"}

NLPlans ==
    {NLModel(UnknownID, "n1", IPBlock(<<"10.0.0.0/8">>, "true"), NoCountry),
     NLModel(UnknownID, "n1", IPBlock(<<"2001:db8::/32">>, "null"), NoCountry),
     NLModel(UnknownID, "n1", IPBlock(<<"10.0.0.0/33">>, "false"), NoCountry),
     NLModel(UnknownID, "n1", NoIP, CountryBlock(<<"MY">>, "null", "null")),
     NLModel(UnknownID, "n1", NoIP, CountryBlock(<<"MY">>, "bogus", "true")),
     NLModel(UnknownID, "n1", IPBlock(<<"10.0.0.0/8">>, "false"),
             CountryBlock(<<"MY">>, "null", "null")),
     NLModel(UnknownID, "n1", NoIP, NoCountry)}

\* a remote namedLocation
Location(id, name, variant, trusted) ==
    [id |-> id, name |-> name, variant |-> variant, trusted |-> trusted]

\* remote named locations, as the list call returns them
NLRemotes ==
    {<< >>,
     <<Location("a", "n1", "ip", TRUE)>>,
     <<Location("b", "other", "country", FALSE), Location("a", "n1", "ip", FALSE)>>}

\* recorded states Update and Delete start from: the location "a" of the remote
NLPriors ==
    {NLModel(FullID("a"), "n1", IPBlock(<<"10.0.0.0/8">>, "true"), NoCountry),
     NLModel(FullID("a"), "n1", IPBlock(<<"10.0.0.0/8">>, "false"), NoCountry),
     NLModel(FullID("a"), "n1", NoIP, CountryBlock(<<"MY">>, "null", "null"))}

PriorRemote(p) ==
    <<Location("a", p.name, IF p.ip.present THEN "ip" ELSE "country",
               p.ip.present /\ p.ip.trusted = "true")>>

\* the same location after a change made outside Terraform: renamed and the
\* trusted flag flipped, or replaced by one of the other variant
DriftedRemotes(p) ==
    {<<Location("a", "renamed", IF p.ip.present THEN "ip" ELSE "country",
                p.ip.present /\ p.ip.trusted # "true")>>,
     <<Location("a", p.name, IF p.ip.present THEN "country" ELSE "ip", FALSE)>>}

\* a pointer of the Graph models: nil, or a value
Nil == [nil |-> TRUE, v |-> << >>]
Ptr(v) == [nil |-> FALSE, v |-> v]

\* a remote group: id and displayName (strings, as sequences of characters)
\* may be missing from an answer
Group(id, name, mail) == [id |-> id, name |-> name, mail |-> mail]

\* remote groups, as the list call would return them without a filter
GrRemotes ==
    {<< >>,
     <<Group(Ptr(<<"1">>), Ptr(<<"a", "1">>), FALSE),
       Group(Ptr(<<"2">>), Ptr(<<"a", "2">>), TRUE),
       Group(Ptr(<<"3">>), Ptr(<<"b", "1">>), FALSE)>>,
     <<Group(Nil, Ptr(<<"a", "1">>), FALSE),
       Group(Ptr(<<"2">>), Nil, FALSE),
       Group(Ptr(<<"3">>), Ptr(<<"a", "1">>), FALSE)>>}

\* groupsDataSourceModel: the configuration of the groups data source
GroupsModel(names, prefix, ignoreMissing, returnAll, mailEnabled) ==
    [names |-> names, prefix |-> prefix, ignoreMissing |-> ignoreMissing,
     returnAll |-> returnAll, mailEnabled |-> mailEnabled]

GroupsPlans ==
    {GroupsModel(<< >>, Nil, "null", "null", "null"),
     GroupsModel(<< <<"a", "1">> >>, Nil, "null", "null", "null"),
     GroupsModel(<< <<"a", "1">>, <<"z">> >>, Nil, "null", "null", "null"),
     GroupsModel(<< <<"a", "1">>, << >> >>, Nil, "null", "null", "null"),
     GroupsModel(<< <<"a", "1">>, <<"z">>, << >> >>, Nil, "true", "false", "null"),
     GroupsModel(<< >>, Ptr(<<"a">>), "null", "null", "null"),
     GroupsModel(<< >>, Ptr(<<"z">>), "false", "null", "null"),
     GroupsModel(<< >>, Ptr(<< >>), "null", "true", "true"),
     GroupsModel(<< >>, Nil, "true", "true", "null"),
     GroupsModel(<< <<"a", "1">> >>, Ptr(<<"a">>), "null", "null", "null")}

\* no concurrent Create is running
NoCC == [p |-> << >>, remote |-> << >>]

\* create calls of one invocation that the remote answers with 429 at most
MaxRateLimited == 2

\* one of two concurrent Create invocations: its display name, its position,
\* the 429 answers its create calls still get, the create calls it issued, its
\* plan.ID, whether createIPNamedLocation failed and whether it wrote its state
Creator(name, limited) ==
    [name |-> name, pc |-> "list", limited |-> limited, posts |-> 0,
     id |-> UnknownID, failed |-> FALSE, stateSet |-> FALSE]

\* two invocations, with different or equal display names, against a remote
\* that is empty or already holds a location named "n1"; remote IDs are the
\* positions in the remote list
CCStarts ==
    {[p |-> <<Creator(n1, l1), Creator(n2, l2)>>, remote |-> r] :
        <<n1, n2>> \in {"n1", "n2"} \X {"n1", "n2"},
        <<l1, l2>> \in (0..MaxRateLimited) \X (0..MaxRateLimited),
        r \in {<< >>, <<Location(1, "n1", "ip", FALSE)>>}}

NoDiag == << >>
NoDel == [i |-> 0, backoff |-> 0, patchErr |-> OK, slept |-> 0]
NoProbe == [permanent |-> FALSE, err |-> OK]

Handlers ==
    {"AMPCreate", "AMPRead", "AMPUpdate", "AMPDelete", "ASRead",
     "NLCreate", "NLRead", "NLUpdate", "NLDelete", "GroupsRead"}

AMPHandlers == {"AMPCreate", "AMPRead", "AMPUpdate", "AMPDelete"}

\* the state every invocation starts from, whatever its inputs
InitCommon ==
    /\ pc = "start"
    /\ site = "none"
    /\ script0 = script
    /\ now = 0
    /\ tfstate = prior
    /\ stateSet = FALSE
    /\ diag = NoDiag
    /\ log = << >>
    /\ bo = ResetBackOff(0)
    /\ wait = 0
    /\ tried = << >>
    /\ nwaits = 0
    /\ waited = 0
    /\ lastDur = 0
    /\ ret = NoRet
    /\ del = NoDel
    /\ patchOkAt = -1
    /\ deleteAt = -1
    /\ probeErr = OK
    /\ probeRes = NoProbe
    /\ asRemote = ASPolicies

Init ==
    /\ handler \in Handlers
    /\ cc = NoCC
    /\ script \in Scripts \cup LostAnswerScripts
    /\ handler # "NLCreate"
          => \A i \in 1..Len(script) : script[i] \notin {OKWithoutID, LostAnswer}
    /\ lat \in Latencies
    /\ jitter \in IF script = <<ODataError(ERR_TOO_MANY_REQ)>>
                    THEN {"each"} ELSE {"low", "high"}
    /\ \/ /\ handler \in {"AMPCreate"}
          /\ plan \in AMPPlans
          /\ prior = NoAMP
          /\ ampRemote = AMPRemote("disabled", << >>)
          /\ nlRemote = << >>
       \/ /\ handler \in {"AMPUpdate"}
          /\ plan \in AMPPlans
          /\ prior \in AMPPriors
          /\ ampRemote = AMPRemote(prior.state, prior.excluded.ids)
          /\ nlRemote = << >>
       \/ /\ handler \in {"AMPRead", "AMPDelete"}
          /\ plan = NoAMP
          /\ prior \in AMPPriors
          /\ ampRemote \in {AMPRemote(prior.state, prior.excluded.ids),
                            AMPRemote("enabled", << >>)}
          /\ nlRemote = << >>
       \/ /\ handler = "ASRead"
          /\ plan \in ASPlans
          /\ prior = NoAMP
          /\ ampRemote = AMPRemote("disabled", << >>)
          /\ nlRemote = << >>
       \/ /\ handler = "NLCreate"
          /\ plan \in NLPlans
          /\ prior = NoNL
          /\ ampRemote = AMPRemote("disabled", << >>)
          /\ nlRemote \in NLRemotes
       \/ /\ handler = "NLUpdate"
          /\ plan \in NLPlans
          /\ prior \in NLPriors
          /\ ampRemote = AMPRemote("disabled", << >>)
          /\ nlRemote = PriorRemote(prior)
       \/ /\ handler = "NLDelete"
          /\ plan = NoNL
          /\ prior \in NLPriors
          /\ ampRemote = AMPRemote("disabled", << >>)
          /\ nlRemote = PriorRemote(prior)
       \/ /\ handler = "NLRead"
          /\ plan = NoNL
          /\ prior \in NLPriors
          /\ ampRemote = AMPRemote("disabled", << >>)
          /\ nlRemote \in {PriorRemote(prior)} \cup DriftedRemotes(prior)
       \/ /\ handler = "GroupsRead"
          /\ plan \in GroupsPlans
          /\ prior = NoAMP
          /\ ampRemote = AMPRemote("disabled", << >>)
          /\ nlRemote = << >>
    /\ grRemote \in IF handler = "GroupsRead" THEN GrRemotes ELSE {<< >>}
    /\ InitCommon

-----------------------------------------------------------------------------
(* Remote calls and the Retry loop *)

\* the remote answers a call with the head of the script; its last entry stays
NextOutcome == Head(script)
RestScript == IF Len(script) > 1 THEN Tail(script) ELSE script
\* a remote call is logged with its answer and the time the answer came
Logged(api, out) == Append(log, [api |-> api, out |-> out, at |-> now + lat])

\* the Retry call sites whose closure classifies with handleAPIError
HandledSites == {"amp_create_patch", "amp_disable_patch", "amp_get", "as_list"}
\* the Retry call sites of the named location resource
NLCreateSites == {"nl_create_ip", "nl_create_country"}
NLPatchSites == {"nl_patch_ip", "nl_patch_country"}

\* what the closure of a call site returns for a failed remote call
ClosureError(s, err) ==
    IF s \in HandledSites THEN handleAPIError(err) ELSE rawAPIError(err)

\* backoff.Retry(operation, b) is entered: b.Reset(), then the first invocation
EnterRetry(s) ==
    /\ site' = s
    /\ pc' = "attempt"
    /\ bo' = ResetBackOff(now)
    /\ tried' = << >>
    /\ nwaits' = 0
    /\ waited' = 0
    /\ wait' = 0
    /\ lastDur' = 0
    /\ ret' = NoRet

\* the operation returned nil, step ms after the last step and dur ms after it
\* was invoked: Retry returns nil
OperationSucceeds(step, dur) ==
    /\ now' = now + step
    /\ lastDur' = dur
    /\ tried' = Append(tried, NextOutcome)
    /\ ret' = [returned |-> TRUE, failed |-> FALSE, err |-> OK, exhausted |-> FALSE]
    /\ pc' = "returned"
    /\ UNCHANGED <<bo, wait, nwaits, waited>>

\* the operation returned the error e: Retry returns a PermanentError's cause at
\* once; for any other error it asks NextBackOff, which stops once the elapsed
\* time is over MaxElapsedTime, and otherwise arms the timer with a randomized
\* interval
OperationFails(e, step, dur) ==
    /\ now' = now + step
    /\ lastDur' = dur
    /\ tried' = Append(tried, NextOutcome)
    /\ IF e.permanent
          THEN /\ ret' = [returned |-> TRUE, failed |-> TRUE, err |-> e.err,
                          exhausted |-> FALSE]
               /\ pc' = "returned"
               /\ UNCHANGED <<bo, wait, nwaits, waited>>
          ELSE IF BackOffStops(bo, now + step)
          THEN /\ ret' = [returned |-> TRUE, failed |-> TRUE, err |-> e.err,
                          exhausted |-> TRUE]
               /\ pc' = "returned"
               /\ UNCHANGED <<bo, wait, nwaits, waited>>
          ELSE /\ \E w \in RandomizedIntervals(bo.cur, jitter) : wait' = w
               /\ bo' = [bo EXCEPT !.cur = IncrementCurrentInterval(bo.cur)]
               /\ pc' = "backoff"
               /\ UNCHANGED <<ret, nwaits, waited>>

\* variables no handler step changes, and groups the steps leave alone
constVars == <<handler, script0, lat, jitter, prior, asRemote, grRemote, cc, probeErr,
              probeRes>>
delVars == <<del, patchOkAt, deleteAt>>
retryVars == <<site, bo, wait, tried, nwaits, waited, lastDur, ret>>

\* the timer fires and Retry invokes the operation again
BackoffWait ==
    /\ pc = "backoff"
    /\ now' = now + wait
    /\ nwaits' = nwaits + 1
    /\ waited' = waited + wait
    /\ pc' = "attempt"
    /\ UNCHANGED <<site, script, plan, tfstate, stateSet, diag, ampRemote, nlRemote,
                   log, bo, wait, tried, lastDur, ret>>
    /\ UNCHANGED <<constVars, delVars>>

\* an error diagnostic: its summary and, when it reports an API error, that error
Diag(summary, err) == [summary |-> summary, api |-> TRUE, err |-> err]
InputDiag(summary) == [summary |-> summary, api |-> FALSE, err |-> OK]

-----------------------------------------------------------------------------
(* Authentication method policy resource *)

\* getAuthMethodReqBody returns a request body (nil for an unknown type)
HasReqBody(authMethodType) ==
    authMethodType \in {"Email", "Fido2", "MicrosoftAuthenticator", "Voice", "Sms",
                        "SoftwareOath", "TemporaryAccessPass", "X509Certificate"}

\* getState returns no diagnostics
KnownState(authMethodState) == authMethodState \in {"enabled", "disabled"}

\* createAuthMethodPolicy, up to its call of backoff.Retry
EnterCreateAuthMethodPolicy ==
    IF ~HasReqBody(plan.type)
        THEN /\ diag' = Append(diag, InputDiag("Invalid Authentication Method Type"))
             /\ pc' = "done"
             /\ UNCHANGED retryVars
        ELSE IF ~KnownState(plan.state)
        THEN /\ diag' = Append(diag, InputDiag("Invalid Authentication Method State"))
             /\ pc' = "done"
             /\ UNCHANGED retryVars
        ELSE /\ EnterRetry("amp_create_patch")
             /\ UNCHANGED diag

\* Create: createAuthMethodPolicy(&plan, &state)
AMPCreateStart ==
    /\ handler = "AMPCreate"
    /\ pc = "start"
    /\ EnterCreateAuthMethodPolicy
    /\ UNCHANGED <<script, now, plan, tfstate, stateSet, ampRemote, nlRemote, log>>
    /\ UNCHANGED <<constVars, delVars>>

\* Update and Delete: deleteAuthMethodPolicy(&state), up to its backoff.Retry
AMPDisableStart ==
    /\ handler \in {"AMPUpdate", "AMPDelete"}
    /\ pc = "start"
    /\ HasReqBody(prior.type)
    /\ EnterRetry("amp_disable_patch")
    /\ UNCHANGED <<script, now, plan, tfstate, stateSet, diag, ampRemote, nlRemote, log>>
    /\ UNCHANGED <<constVars, delVars>>

\* Read, up to its backoff.Retry
AMPReadStart ==
    /\ handler = "AMPRead"
    /\ pc = "start"
    /\ EnterRetry("amp_get")
    /\ UNCHANGED <<script, now, plan, tfstate, stateSet, diag, ampRemote, nlRemote, log>>
    /\ UNCHANGED <<constVars, delVars>>

\* the refresh that follows a Create that recorded its state: Read of the
\* state Create wrote, with no remote change in between
AMPReadAfterCreate ==
    /\ handler = "AMPCreate"
    /\ pc = "done"
    /\ stateSet
    /\ EnterRetry("amp_get")
    /\ UNCHANGED <<script, now, plan, tfstate, stateSet, diag, ampRemote, nlRemote, log>>
    /\ UNCHANGED <<constVars, delVars>>

\* the remote call a handled call site makes
APIOf(s) ==
    CASE s = "amp_create_patch" -> "PATCH authenticationMethodConfiguration"
      [] s = "amp_disable_patch" -> "PATCH authenticationMethodConfiguration"
      [] s = "amp_get" -> "GET authenticationMethodConfiguration"
      [] s = "as_list" -> "GET authenticationStrengthPolicies"

\* a request that carries the state and leaves the exclude targets out
AMPAfterStateOnly(s) ==
    CASE s = "amp_create_patch" -> AMPRemote(plan.state, ampRemote.excludeTargets)
      [] s = "amp_disable_patch" -> AMPRemote("disabled", ampRemote.excludeTargets)
      [] OTHER -> ampRemote

\* the remote configuration after a successful call of the site
AMPAfter(s) ==
    CASE s = "amp_create_patch" -> AMPRemote(plan.state, plan.excluded.ids)
      [] s = "amp_disable_patch" -> AMPRemote("disabled", << >>)
      [] OTHER -> ampRemote

\* one invocation of a closure that makes one remote call and classifies its
\* error with handleAPIError
AttemptHandled ==
    /\ pc = "attempt"
    /\ site \in HandledSites
    /\ script' = RestScript
    /\ log' = Logged(APIOf(site), NextOutcome)
    /\ IF NextOutcome.ok
          THEN /\ OperationSucceeds(lat, lat)
               /\ ampRemote' = AMPAfter(site)
          ELSE /\ OperationFails(ClosureError(site, NextOutcome), lat, lat)
               /\ UNCHANGED ampRemote
    /\ UNCHANGED <<site, plan, tfstate, stateSet, diag, nlRemote>>
    /\ UNCHANGED <<constVars, delVars>>

\* createAuthMethodPolicy after backoff.Retry, and the rest of Create or Update
AMPCreateReturned ==
    /\ pc = "returned"
    /\ site = "amp_create_patch"
    /\ pc' = "done"
    /\ IF ret.failed
          THEN /\ diag' = Append(diag,
                     Diag("Unable to Create Authentication Method Policy", ret.err))
               /\ UNCHANGED <<tfstate, stateSet>>
          ELSE /\ tfstate' = plan
               /\ stateSet' = TRUE
               /\ UNCHANGED diag
    /\ UNCHANGED <<script, now, plan, ampRemote, nlRemote, log>>
    /\ UNCHANGED <<constVars, delVars, retryVars>>

\* deleteAuthMethodPolicy after backoff.Retry; Update goes on to
\* createAuthMethodPolicy, Delete is over
AMPDisableReturned ==
    /\ pc = "returned"
    /\ site = "amp_disable_patch"
    /\ IF ret.failed
          THEN /\ diag' = Append(diag,
                     Diag("Unable to Delete Authentication Method Policy", ret.err))
               /\ pc' = "done"
               /\ UNCHANGED retryVars
          ELSE IF handler = "AMPDelete"
          THEN /\ pc' = "done"
               /\ UNCHANGED <<diag, retryVars>>
          ELSE EnterCreateAuthMethodPolicy
    /\ UNCHANGED <<script, now, plan, tfstate, stateSet, ampRemote, nlRemote, log>>
    /\ UNCHANGED <<constVars, delVars>>

\* the excluded group IDs Read records: a nil slice when there is no target
ReadExcluded(targets) == IF targets = << >> THEN NullList ELSE ListOf(targets)

\* Read after backoff.Retry
AMPReadReturned ==
    /\ pc = "returned"
    /\ site = "amp_get"
    /\ pc' = IF handler = "AMPRead" THEN "done" ELSE "read"
    /\ IF ret.failed
          THEN /\ diag' = Append(diag,
                     Diag("Unable to Read Authentication Method Policy", ret.err))
               /\ UNCHANGED <<tfstate, stateSet>>
          ELSE /\ tfstate' = AMPModel(IF handler = "AMPRead" THEN prior.type
                                                             ELSE tfstate.type,
                                      ampRemote.state,
                                      ReadExcluded(ampRemote.excludeTargets))
               /\ stateSet' = TRUE
               /\ UNCHANGED diag
    /\ UNCHANGED <<script, now, plan, ampRemote, nlRemote, log>>
    /\ UNCHANGED <<constVars, delVars, retryVars>>

-----------------------------------------------------------------------------
(* Authentication strengths data source *)

\* listOfStringsToSlice
listOfStringsToSlice(list) == IF list.null THEN << >> ELSE list.ids

Contains(slice, x) == \E i \in 1..Len(slice) : slice[i] = x

\* a filter that keeps every policy
FilterPoliciesAll(policies, nameSlice, idSlice) == policies

\* the policies addPolicy is called for, in the order of the response
RECURSIVE FilterPolicies(_, _, _)
FilterPolicies(policies, nameSlice, idSlice) ==
    IF policies = << >> THEN << >>
    ELSE LET p == Head(policies)
             rest == FilterPolicies(Tail(policies), nameSlice, idSlice)
             keep == IF Len(nameSlice) # 0 THEN Contains(nameSlice, p.name)
                     ELSE IF Len(idSlice) # 0 THEN Contains(idSlice, p.id)
                     ELSE TRUE
         IN IF keep THEN <<p>> \o rest ELSE rest

\* the policies of the second loop, which become authStrengthItems
RECURSIVE FilterItems(_, _, _)
FilterItems(policies, nameSlice, idSlice) ==
    IF policies = << >> THEN << >>
    ELSE LET p == Head(policies)
             rest == FilterItems(Tail(policies), nameSlice, idSlice)
         IN IF Len(nameSlice) > 0 /\ ~Contains(nameSlice, p.name) THEN rest
            ELSE IF Len(idSlice) > 0 /\ ~Contains(idSlice, p.id) THEN rest
            ELSE <<p>> \o rest

ASFullID(id) == <<"policies", "authenticationStrengthPolicies", id>>

\* the state Read writes
ASState(policies, cfg) ==
    LET kept == FilterPolicies(policies, listOfStringsToSlice(cfg.names),
                               listOfStringsToSlice(cfg.ids))
        items == FilterItems(policies, listOfStringsToSlice(cfg.names),
                             listOfStringsToSlice(cfg.ids))
    IN [ids |-> ListOf([i \in 1..Len(kept) |-> ASFullID(kept[i].id)]),
        names |-> ListOf([i \in 1..Len(kept) |-> kept[i].name]),
        authStrengths |-> [i \in 1..Len(items) |->
                              [id |-> ASFullID(items[i].id), name |-> items[i].name]]]

\* Read, up to its backoff.Retry
ASReadStart ==
    /\ handler = "ASRead"
    /\ pc = "start"
    /\ IF Len(plan.ids.ids) > 0 /\ Len(plan.names.ids) > 0
          THEN /\ diag' = Append(diag, InputDiag("Invalid Input"))
               /\ pc' = "done"
               /\ UNCHANGED retryVars
          ELSE /\ EnterRetry("as_list")
               /\ UNCHANGED diag
    /\ UNCHANGED <<script, now, plan, tfstate, stateSet, ampRemote, nlRemote, log>>
    /\ UNCHANGED <<constVars, delVars>>

\* Read after backoff.Retry
ASReadReturned ==
    /\ pc = "returned"
    /\ site = "as_list"
    /\ pc' = "done"
    /\ IF ret.failed
          THEN /\ diag' = Append(diag,
                     Diag("Unable to Retrieve Authentication Strength Policy", ret.err))
               /\ UNCHANGED <<tfstate, stateSet>>
          ELSE /\ tfstate' = ASState(asRemote, plan)
               /\ stateSet' = TRUE
               /\ UNCHANGED diag
    /\ UNCHANGED <<script, now, plan, ampRemote, nlRemote, log>>
    /\ UNCHANGED <<constVars, delVars, retryVars>>

-----------------------------------------------------------------------------
(* Named location resource *)

\* a settle sleep of one second
SettleOfOneSecond == 1 * 1000
\* time.Sleep(1 * time.Minute)
SettleInterval == 60000
DeleteFirstBackoff == 2000
\* a loop of one turn more
DeleteSixAttempts == 5 + 1
\* for i := 0; i < 5; i++
DeleteMaxAttempts == 5

NewID == "new"

AllValidCIDR(ranges) == \A i \in 1..Len(ranges) : ValidCIDR(ranges[i])

\* the lookup method is null or one the switch knows
KnownLookup(m) ==
    m \in {"null", "clientIpAddress", "authenticatorAppGps", "unknownFutureValue"}

\* a search that takes the first location of the response, whatever its name
FindByDisplayNameAny(locs, name) == IF Len(locs) = 0 THEN 0 ELSE 1

\* a search that never finds the display name
FindByDisplayNameNever(locs, name) == 0

\* index of the first location of the response with the display name, 0 if none
FindByDisplayName(locs, name) ==
    IF \E i \in 1..Len(locs) : locs[i].name = name
        THEN CHOOSE i \in 1..Len(locs) :
                 /\ locs[i].name = name
                 /\ \A j \in 1..(i - 1) : locs[j].name # name
        ELSE 0

\* the location a create request asks for
CreateRequest(p) ==
    IF p.ip.present
        THEN Location(NewID, p.name, "ip", p.ip.trusted = "true")
        ELSE Location(NewID, p.name, "country", FALSE)

\* a location after a PATCH with the plan's values; a null trusted flag is a nil
\* pointer and is not sent
Patched(loc, p) ==
    IF p.ip.present
        THEN [loc EXCEPT !.name = p.name, !.variant = "ip",
                         !.trusted = IF p.ip.trusted = "null" THEN loc.trusted
                                     ELSE p.ip.trusted = "true"]
        ELSE [loc EXCEPT !.name = p.name, !.variant = "country", !.trusted = FALSE]

PatchRemote(locs, id, p) ==
    [i \in 1..Len(locs) |-> IF locs[i].id = id THEN Patched(locs[i], p) ELSE locs[i]]

UntrustRemote(locs, id) ==
    [i \in 1..Len(locs) |->
        IF locs[i].id = id THEN [locs[i] EXCEPT !.trusted = FALSE] ELSE locs[i]]

RECURSIVE RemoveRemote(_, _)
RemoveRemote(locs, id) ==
    IF locs = << >> THEN << >>
    ELSE IF Head(locs).id = id THEN RemoveRemote(Tail(locs), id)
    ELSE <<Head(locs)>> \o RemoveRemote(Tail(locs), id)

\* Create, up to the backoff.Retry of createIPNamedLocation or
\* createCountryNamedLocation; with neither block it writes the plan as state
NLCreateStart ==
    /\ handler = "NLCreate"
    /\ pc = "start"
    /\ IF plan.ip.present
          THEN IF AllValidCIDR(plan.ip.ranges)
                  THEN /\ EnterRetry("nl_create_ip")
                       /\ UNCHANGED <<diag, tfstate, stateSet>>
                  ELSE /\ diag' = Append(diag,
                             InputDiag("Failed to create IP named location."))
                       /\ pc' = "done"
                       /\ UNCHANGED <<retryVars, tfstate, stateSet>>
          ELSE IF plan.country.present
          THEN IF KnownLookup(plan.country.lookup)
                  THEN /\ EnterRetry("nl_create_country")
                       /\ UNCHANGED <<diag, tfstate, stateSet>>
                  ELSE /\ diag' = diag \o
                             <<InputDiag("Invalid Country Lookup Method"),
                               InputDiag("Failed to create country named location.")>>
                       /\ pc' = "done"
                       /\ UNCHANGED <<retryVars, tfstate, stateSet>>
          ELSE /\ tfstate' = plan
               /\ stateSet' = TRUE
               /\ pc' = "done"
               /\ UNCHANGED <<diag, retryVars>>
    /\ UNCHANGED <<script, now, plan, ampRemote, nlRemote, log>>
    /\ UNCHANGED <<constVars, delVars>>

\* the create closure, first half: list the named locations and adopt the ID of
\* the first one with the display name
AttemptNLList ==
    /\ pc = "attempt"
    /\ site \in NLCreateSites
    /\ script' = RestScript
    /\ log' = Logged("GET namedLocations", NextOutcome)
    /\ IF ~NextOutcome.ok
          THEN /\ OperationFails(ClosureError(site, NextOutcome), lat, lat)
               /\ UNCHANGED plan
          ELSE IF FindByDisplayName(nlRemote, plan.name) # 0
          THEN /\ plan' = [plan EXCEPT !.id =
                              FullID(nlRemote[FindByDisplayName(nlRemote, plan.name)].id)]
               /\ OperationSucceeds(lat, lat)
          ELSE /\ pc' = "post"
               /\ now' = now + lat
               /\ UNCHANGED <<plan, bo, wait, tried, nwaits, waited, lastDur, ret>>
    /\ UNCHANGED <<site, tfstate, stateSet, diag, ampRemote, nlRemote>>
    /\ UNCHANGED <<constVars, delVars>>

\* the create closure, second half: create the location, take its ID and sleep
\* for the settle interval
AttemptNLPost ==
    /\ pc = "post"
    /\ script' = RestScript
    /\ log' = Logged("POST namedLocations", NextOutcome)
    /\ IF ~NextOutcome.ok
          THEN /\ OperationFails(ClosureError(site, NextOutcome), lat, 2 * lat)
               /\ nlRemote' = IF NextOutcome.applied
                                  THEN Append(nlRemote, CreateRequest(plan))
                                  ELSE nlRemote
               /\ UNCHANGED plan
          ELSE IF ~NextOutcome.withID
          THEN /\ nlRemote' = Append(nlRemote, CreateRequest(plan))
               /\ OperationFails(Permanent(PlainError), lat, 2 * lat)
               /\ UNCHANGED plan
          ELSE /\ nlRemote' = Append(nlRemote, CreateRequest(plan))
               /\ plan' = [plan EXCEPT !.id = FullID(NewID)]
               /\ OperationSucceeds(lat + SettleInterval, 2 * lat + SettleInterval)
    /\ UNCHANGED <<site, tfstate, stateSet, diag, ampRemote>>
    /\ UNCHANGED <<constVars, delVars>>

\* Create after createIPNamedLocation or createCountryNamedLocation returned
NLCreateReturned ==
    /\ pc = "returned"
    /\ site \in NLCreateSites
    /\ pc' = "done"
    /\ IF ret.failed
          THEN /\ diag' = Append(diag,
                     Diag(IF site = "nl_create_ip"
                              THEN "Failed to create IP named location."
                              ELSE "Failed to create country named location.", ret.err))
               /\ UNCHANGED <<tfstate, stateSet>>
          ELSE /\ tfstate' = NLModel(plan.id, plan.name, plan.ip, plan.country)
               /\ stateSet' = TRUE
               /\ UNCHANGED diag
    /\ UNCHANGED <<script, now, plan, ampRemote, nlRemote, log>>
    /\ UNCHANGED <<constVars, delVars, retryVars>>

\* Update, up to the backoff.Retry of updateIpNamedLocation or
\* updateCountryNamedLocation; with neither block it writes the plan as state
NLUpdateStart ==
    /\ handler = "NLUpdate"
    /\ pc = "start"
    /\ IF plan.ip.present
          THEN IF AllValidCIDR(plan.ip.ranges)
                  THEN /\ EnterRetry("nl_patch_ip")
                       /\ UNCHANGED <<diag, tfstate, stateSet>>
                  ELSE /\ diag' = Append(diag,
                             InputDiag("Failed to update named location."))
                       /\ pc' = "done"
                       /\ UNCHANGED <<retryVars, tfstate, stateSet>>
          ELSE IF plan.country.present
          THEN IF KnownLookup(plan.country.lookup)
                  THEN /\ EnterRetry("nl_patch_country")
                       /\ UNCHANGED <<diag, tfstate, stateSet>>
                  ELSE /\ diag' = diag \o
                             <<InputDiag("Invalid Country Lookup Method"),
                               InputDiag("Failed to update named location.")>>
                       /\ pc' = "done"
                       /\ UNCHANGED <<retryVars, tfstate, stateSet>>
          ELSE /\ tfstate' = [plan EXCEPT !.id = prior.id]
               /\ stateSet' = TRUE
               /\ pc' = "done"
               /\ UNCHANGED <<diag, retryVars>>
    /\ UNCHANGED <<script, now, plan, ampRemote, nlRemote, log>>
    /\ UNCHANGED <<constVars, delVars>>

\* the update closure: one PATCH, its error returned as it is
AttemptNLPatch ==
    /\ pc = "attempt"
    /\ site \in NLPatchSites
    /\ script' = RestScript
    /\ log' = Logged("PATCH namedLocation", NextOutcome)
    /\ IF NextOutcome.ok
          THEN /\ OperationSucceeds(lat, lat)
               /\ nlRemote' = PatchRemote(nlRemote, LastPart(prior.id), plan)
          ELSE /\ OperationFails(ClosureError(site, NextOutcome), lat, lat)
               /\ UNCHANGED nlRemote
    /\ UNCHANGED <<site, plan, tfstate, stateSet, diag, ampRemote>>
    /\ UNCHANGED <<constVars, delVars>>

\* Update after updateIpNamedLocation or updateCountryNamedLocation returned
NLUpdateReturned ==
    /\ pc = "returned"
    /\ site \in NLPatchSites
    /\ pc' = "done"
    /\ IF ret.failed
          THEN /\ diag' = Append(diag, Diag("Failed to update named location.", ret.err))
               /\ UNCHANGED <<tfstate, stateSet>>
          ELSE /\ tfstate' = [plan EXCEPT !.id = prior.id]
               /\ stateSet' = TRUE
               /\ UNCHANGED diag
    /\ UNCHANGED <<script, now, plan, ampRemote, nlRemote, log>>
    /\ UNCHANGED <<constVars, delVars, retryVars>>

\* a Delete that never untrusts first
NeedsUntrustNever(st) == FALSE

\* Delete untrusts an IP-based location recorded as trusted before deleting it
NeedsUntrust(st) == st.ip.present /\ st.ip.trusted = "true"

\* Delete, up to the untrust loop or the DELETE call
NLDeleteStart ==
    /\ handler = "NLDelete"
    /\ pc = "start"
    /\ IF NeedsUntrust(prior)
          THEN IF AllValidCIDR(prior.ip.ranges)
                  THEN /\ del' = [i |-> 0, backoff |-> DeleteFirstBackoff,
                                  patchErr |-> OK, slept |-> 0]
                       /\ pc' = "unpatch"
                       /\ UNCHANGED diag
                  ELSE /\ diag' = Append(diag, InputDiag("Invalid CIDR Format"))
                       /\ pc' = "done"
                       /\ UNCHANGED del
          ELSE /\ pc' = "delete"
               /\ UNCHANGED <<diag, del>>
    /\ UNCHANGED <<script, now, plan, tfstate, stateSet, ampRemote, nlRemote, log>>
    /\ UNCHANGED <<constVars, retryVars, patchOkAt, deleteAt>>

\* one turn of the untrust loop: PATCH isTrusted = false; on success leave the
\* loop and sleep for the settle interval; on failure sleep for the backoff,
\* double it, and give up with an error after the last turn
NLDeletePatch ==
    /\ pc = "unpatch"
    /\ del.i < DeleteMaxAttempts
    /\ script' = RestScript
    /\ log' = Logged("PATCH namedLocation", NextOutcome)
    /\ IF NextOutcome.ok
          THEN /\ nlRemote' = UntrustRemote(nlRemote, LastPart(prior.id))
               /\ del' = [del EXCEPT !.patchErr = OK]
               /\ patchOkAt' = now + lat
               /\ now' = now + lat + SettleInterval
               /\ pc' = "delete"
               /\ UNCHANGED diag
          ELSE /\ del' = [i |-> del.i + 1, backoff |-> 2 * del.backoff,
                          patchErr |-> NextOutcome, slept |-> del.slept + del.backoff]
               /\ now' = now + lat + del.backoff
               /\ IF del.i + 1 < DeleteMaxAttempts
                     THEN /\ pc' = "unpatch"
                          /\ UNCHANGED diag
                     ELSE /\ pc' = "done"
                          /\ diag' = Append(diag,
                                 Diag("Unable to update Named Location", NextOutcome))
               /\ UNCHANGED <<nlRemote, patchOkAt>>
    /\ UNCHANGED <<plan, tfstate, stateSet, ampRemote, deleteAt>>
    /\ UNCHANGED <<constVars, retryVars>>

\* the DELETE call and the end of Delete
NLDeleteCall ==
    /\ pc = "delete"
    /\ script' = RestScript
    /\ log' = Logged("DELETE namedLocation", NextOutcome)
    /\ deleteAt' = now
    /\ now' = now + lat
    /\ pc' = "done"
    /\ IF NextOutcome.ok
          THEN /\ nlRemote' = RemoveRemote(nlRemote, LastPart(prior.id))
               /\ UNCHANGED diag
          ELSE /\ diag' = Append(diag,
                     Diag("Unable to delete Named Location", NextOutcome))
               /\ UNCHANGED nlRemote
    /\ UNCHANGED <<plan, tfstate, stateSet, ampRemote, del, patchOkAt>>
    /\ UNCHANGED <<constVars, retryVars>>

\* index of the location with the ID in the remote, 0 if none
FindByID(locs, id) ==
    IF \E i \in 1..Len(locs) : locs[i].id = id
        THEN CHOOSE i \in 1..Len(locs) : locs[i].id = id
        ELSE 0

\* the state Read writes for the location the GET returned: display name and
\* trusted flag from the remote, the block of the other variant dropped
ReadState(st, loc) ==
    IF loc.variant = "country"
        THEN [st EXCEPT !.name = loc.name, !.ip = NoIP]
        ELSE [st EXCEPT !.name = loc.name,
                        !.ip.trusted = IF loc.trusted THEN "true" ELSE "false",
                        !.country = NoCountry]

\* Read writes through state.Country or state.IP: a nil pointer dereference
\* (the provider panics) when the recorded state has no block of the variant
\* the remote location has
ReadDereferencesNil(st, loc) ==
    IF loc.variant = "country" THEN ~st.country.present ELSE ~st.ip.present

\* Read of the recorded state st, ending at position end: one GET of the named
\* location, not wrapped in backoff.Retry
NLReadGet(st, end) ==
    /\ script' = RestScript
    /\ log' = Logged("GET namedLocation", NextOutcome)
    /\ now' = now + lat
    /\ LET i == FindByID(nlRemote, LastPart(st.id))
       IN IF ~NextOutcome.ok
             THEN /\ diag' = Append(diag, Diag("Microsoft Graph Error", NextOutcome))
                  /\ pc' = end
                  /\ UNCHANGED <<tfstate, stateSet>>
             ELSE IF i = 0
             THEN /\ diag' = Append(diag, InputDiag("Invalid Response"))
                  /\ pc' = end
                  /\ UNCHANGED <<tfstate, stateSet>>
             ELSE IF ReadDereferencesNil(st, nlRemote[i])
             THEN /\ pc' = "panic"
                  /\ UNCHANGED <<diag, tfstate, stateSet>>
             ELSE /\ tfstate' = ReadState(st, nlRemote[i])
                  /\ stateSet' = TRUE
                  /\ pc' = end
                  /\ UNCHANGED diag
    /\ UNCHANGED <<plan, ampRemote, nlRemote>>
    /\ UNCHANGED <<constVars, delVars, retryVars>>

\* Read of the state the invocation was given
NLReadCall ==
    /\ handler = "NLRead"
    /\ pc = "start"
    /\ NLReadGet(prior, "done")

\* the refresh that follows a Create that recorded a state with an ID: Read of
\* the state Create wrote, with no remote change in between
NLReadAfterCreate ==
    /\ handler = "NLCreate"
    /\ pc = "done"
    /\ stateSet
    /\ tfstate.id # UnknownID
    /\ NLReadGet(tfstate, "read")

-----------------------------------------------------------------------------
(* Groups data source *)

IsTrue(b) == b = "true"

hasDisplayNames(cfg) == Len(cfg.names) > 0
hasPrefix(cfg) == ~cfg.prefix.nil /\ cfg.prefix.v # << >>
returnAll(cfg) == IsTrue(cfg.returnAll)
ignoreMissing(cfg) == IsTrue(cfg.ignoreMissing)

\* setCount > 1
SeveralSelectors(cfg) ==
    \/ hasDisplayNames(cfg) /\ hasPrefix(cfg)
    \/ hasDisplayNames(cfg) /\ returnAll(cfg)
    \/ hasPrefix(cfg) /\ returnAll(cfg)

\* startswith(displayName, prefix), as the remote evaluates the filter
StartsWith(name, prefix) ==
    /\ Len(prefix) <= Len(name)
    /\ SubSeq(name, 1, Len(prefix)) = prefix

\* the groups the remote returns for the filter built from the configuration
FilteredGroups(groups, cfg) ==
    SelectSeq(groups, LAMBDA g :
        /\ hasPrefix(cfg) => (~g.name.nil /\ StartsWith(g.name.v, cfg.prefix.v))
        /\ cfg.mailEnabled # "null" => (g.mail = IsTrue(cfg.mailEnabled)))

\* inputNames: the display names asked for that are neither null nor empty
InputNames(cfg) == {cfg.names[i] : i \in 1..Len(cfg.names)} \ {<< >>}

groupModel(g) == [display_name |-> g.name.v, id |-> g.id.v]

\* a group is passed over only when it lacks both
LacksNameAndID(g) == g.name.nil /\ g.id.nil

\* name == nil || id == nil: the group is passed over
LacksNameOrID(g) == g.name.nil \/ g.id.nil

\* a loop that never takes a name off inputNames
RECURSIVE CollectGroupsKeepNames(_, _, _)
CollectGroupsKeepNames(result, inputNames, all) ==
    IF result = << >> THEN [groups |-> << >>, missing |-> inputNames]
    ELSE LET g == Head(result)
             r == CollectGroupsKeepNames(Tail(result), inputNames, all)
         IN IF ~LacksNameOrID(g) /\ (all \/ g.name.v \in inputNames)
               THEN [r EXCEPT !.groups = <<groupModel(g)>> \o r.groups]
               ELSE r

\* the loop over result.GetValue(): the groups kept and the names still missing
RECURSIVE CollectGroups(_, _, _)
CollectGroups(result, inputNames, all) ==
    IF result = << >> THEN [groups |-> << >>, missing |-> inputNames]
    ELSE LET g == Head(result)
         IN IF LacksNameOrID(g)
               THEN CollectGroups(Tail(result), inputNames, all)
            ELSE IF all
               THEN LET r == CollectGroups(Tail(result), inputNames, all)
                    IN [r EXCEPT !.groups = <<groupModel(g)>> \o r.groups]
            ELSE IF g.name.v \in inputNames
               THEN LET r == CollectGroups(Tail(result), inputNames \ {g.name.v}, all)
                    IN [r EXCEPT !.groups = <<groupModel(g)>> \o r.groups]
            ELSE CollectGroups(Tail(result), inputNames, all)

\* the display names of the answer, for a configuration that gave none
RECURSIVE ResultNames(_)
ResultNames(result) ==
    IF result = << >> THEN << >>
    ELSE IF Head(result).name.nil THEN ResultNames(Tail(result))
    ELSE <<Head(result).name.v>> \o ResultNames(Tail(result))

DefaultFalse(b) == IF b = "null" THEN "false" ELSE b

\* the state Read writes
GroupsState(cfg, result, groups) ==
    [names |-> IF hasDisplayNames(cfg) THEN cfg.names ELSE ResultNames(result),
     prefix |-> IF cfg.prefix.nil THEN Ptr(<< >>) ELSE cfg.prefix,
     ignoreMissing |-> DefaultFalse(cfg.ignoreMissing),
     returnAll |-> DefaultFalse(cfg.returnAll),
     mailEnabled |-> DefaultFalse(cfg.mailEnabled),
     groups |-> groups]

\* Read, the validation of the configuration
GroupsReadStart ==
    /\ handler = "GroupsRead"
    /\ pc = "start"
    /\ IF SeveralSelectors(plan) \/ (returnAll(plan) /\ ignoreMissing(plan))
          THEN /\ diag' = Append(diag, InputDiag("Invalid Configuration"))
               /\ pc' = "done"
          ELSE /\ pc' = "call"
               /\ UNCHANGED diag
    /\ UNCHANGED <<script, now, plan, tfstate, stateSet, ampRemote, nlRemote, log>>
    /\ UNCHANGED <<constVars, delVars, retryVars>>

\* Read, the list call (not wrapped in backoff.Retry) and what follows it
GroupsReadCall ==
    /\ handler = "GroupsRead"
    /\ pc = "call"
    /\ script' = RestScript
    /\ log' = Logged("GET groups", NextOutcome)
    /\ now' = now + lat
    /\ pc' = "done"
    /\ LET result == FilteredGroups(grRemote, plan)
           c == CollectGroups(result, InputNames(plan), returnAll(plan) \/ hasPrefix(plan))
       IN IF ~NextOutcome.ok
             THEN /\ diag' = Append(diag, Diag("Graph API Error", NextOutcome))
                  /\ UNCHANGED <<tfstate, stateSet>>
             ELSE IF hasPrefix(plan) /\ Len(c.groups) = 0
             THEN /\ diag' = Append(diag, InputDiag("No Groups Found"))
                  /\ UNCHANGED <<tfstate, stateSet>>
             ELSE IF c.missing # {} /\ ~ignoreMissing(plan)
             THEN /\ diag' = Append(diag, InputDiag("Missing Groups"))
                  /\ UNCHANGED <<tfstate, stateSet>>
             ELSE /\ tfstate' = GroupsState(plan, result, c.groups)
                  /\ stateSet' = TRUE
                  /\ UNCHANGED diag
    /\ UNCHANGED <<plan, ampRemote, nlRemote>>
    /\ UNCHANGED <<constVars, delVars, retryVars>>

-----------------------------------------------------------------------------
(* The specification of one handler invocation *)

Next ==
    \/ AMPCreateStart
    \/ AMPDisableStart
    \/ AMPReadStart
    \/ ASReadStart
    \/ AttemptHandled
    \/ BackoffWait
    \/ AMPCreateReturned
    \/ AMPDisableReturned
    \/ AMPReadReturned
    \/ ASReadReturned
    \/ NLCreateStart
    \/ AttemptNLList
    \/ AttemptNLPost
    \/ NLCreateReturned
    \/ NLUpdateStart
    \/ AttemptNLPatch
    \/ NLUpdateReturned
    \/ NLDeleteStart
    \/ NLDeletePatch
    \/ NLDeleteCall
    \/ NLReadCall
    \/ NLReadAfterCreate
    \/ AMPReadAfterCreate
    \/ GroupsReadStart
    \/ GroupsReadCall

Spec == Init /\ [][Next]_vars

\* the handler is a running goroutine: a step that can be taken is taken
SpecFair == Init /\ [][Next]_vars /\ WF_vars(Next)

-----------------------------------------------------------------------------
(* The specification of the classifier alone: handleAPIError applied to every
   error of a range of status codes and to an error that carries none *)

ProbeErrors == {ODataError(c) : c \in 0..MaxStatusCode} \cup {PlainError}

InitClassify ==
    /\ handler = "none"
    /\ script = <<OK>>
    /\ lat = 0
    /\ jitter = "low"
    /\ plan = NoAMP
    /\ prior = NoAMP
    /\ ampRemote = AMPRemote("disabled", << >>)
    /\ nlRemote = << >>
    /\ grRemote = << >>
    /\ cc = NoCC
    /\ InitCommon

ClassifyStep ==
    /\ handler = "none"
    /\ \E e \in ProbeErrors :
          /\ probeErr' = e
          /\ probeRes' = handleAPIError(e)
    /\ pc' = "probed"
    /\ UNCHANGED <<handler, site, script, script0, lat, jitter, now, plan, prior,
                   tfstate, stateSet, diag, ampRemote, nlRemote, asRemote, grRemote,
                   cc, log, bo, wait, tried, nwaits, waited, lastDur, ret, del,
                   patchOkAt, deleteAt>>

SpecClassify == InitClassify /\ [][ClassifyStep]_vars

-----------------------------------------------------------------------------
(* Two Create invocations of IP named locations running concurrently: each
   runs createIPNamedLocation under its own backoff.Retry with its own policy,
   and the remote is all they share. A create call is answered with 429 at
   most MaxRateLimited times, so the waits stay far below the time budget and
   the clock is left out. *)

InitCC ==
    /\ handler = "NLCreateCC"
    /\ script = <<OK>>
    /\ lat = 0
    /\ jitter = "low"
    /\ plan = NoNL
    /\ prior = NoNL
    /\ ampRemote = AMPRemote("disabled", << >>)
    /\ nlRemote = << >>
    /\ grRemote = << >>
    /\ cc \in CCStarts
    /\ InitCommon

\* the variables the concurrent invocations do not use
notCC == <<handler, pc, site, script, script0, lat, jitter, now, plan, prior,
           tfstate, stateSet, diag, ampRemote, nlRemote, asRemote, grRemote, log,
           bo, wait, tried, nwaits, waited, lastDur, ret, del, patchOkAt,
           deleteAt, probeErr, probeRes>>

\* the closure of invocation i lists the named locations: it adopts the ID of
\* the first one with its display name and returns nil, or goes on to create
CCList(i) ==
    /\ handler = "NLCreateCC"
    /\ cc.p[i].pc = "list"
    /\ LET found == FindByDisplayName(cc.remote, cc.p[i].name) IN
       cc' = IF found # 0
                THEN [cc EXCEPT !.p[i].id = FullID(cc.remote[found].id),
                                !.p[i].pc = "returned"]
                ELSE [cc EXCEPT !.p[i].pc = "post"]
    /\ UNCHANGED notCC

\* the create call of invocation i: a 429 comes back as the closure returns
\* it, and Retry returns it when it is permanent and waits otherwise; an
\* accepted call adds the location to the remote and the closure takes its ID
CCPost(i) ==
    /\ handler = "NLCreateCC"
    /\ cc.p[i].pc = "post"
    /\ cc' = IF cc.p[i].limited > 0
                THEN IF ClosureError("nl_create_ip",
                                     ODataError(ERR_TOO_MANY_REQ)).permanent
                        THEN [cc EXCEPT !.p[i].limited = @ - 1,
                                        !.p[i].posts = @ + 1,
                                        !.p[i].failed = TRUE,
                                        !.p[i].pc = "returned"]
                        ELSE [cc EXCEPT !.p[i].limited = @ - 1,
                                        !.p[i].posts = @ + 1,
                                        !.p[i].pc = "backoff"]
                ELSE [cc EXCEPT
                         !.remote = Append(@, Location(Len(cc.remote) + 1,
                                                       cc.p[i].name, "ip", FALSE)),
                         !.p[i].id = FullID(Len(cc.remote) + 1),
                         !.p[i].posts = @ + 1,
                         !.p[i].pc = "settle"]
    /\ UNCHANGED notCC

\* the timer of invocation i fires and Retry invokes the closure again
CCBackoff(i) ==
    /\ handler = "NLCreateCC"
    /\ cc.p[i].pc = "backoff"
    /\ cc' = [cc EXCEPT !.p[i].pc = "list"]
    /\ UNCHANGED notCC

\* the settle sleep of invocation i ends and the closure returns nil
CCSettle(i) ==
    /\ handler = "NLCreateCC"
    /\ cc.p[i].pc = "settle"
    /\ cc' = [cc EXCEPT !.p[i].pc = "returned"]
    /\ UNCHANGED notCC

\* Create of invocation i reports the error of createIPNamedLocation, or
\* writes its state with plan.ID
CCReturned(i) ==
    /\ handler = "NLCreateCC"
    /\ cc.p[i].pc = "returned"
    /\ cc' = [cc EXCEPT !.p[i].stateSet = ~cc.p[i].failed, !.p[i].pc = "done"]
    /\ UNCHANGED notCC

NextCC ==
    \/ \E i \in 1..2 : CCList(i)
    \/ \E i \in 1..2 : CCPost(i)
    \/ \E i \in 1..2 : CCBackoff(i)
    \/ \E i \in 1..2 : CCSettle(i)
    \/ \E i \in 1..2 : CCReturned(i)

SpecCC == InitCC /\ [][NextCC]_vars

-----------------------------------------------------------------------------
(* Properties *)

\* a remote failure the error taxonomy calls Retryable: it carries a status
\* code of 429, 500, 503 or 509
RetryableFailure(o) == ~o.ok /\ o.odata /\ o.code \in {429, 500, 503, 509}
\* a remote failure the error taxonomy calls Permanent: any other status code,
\* or no status code at all
PermanentFailure(o) == ~o.ok /\ ~RetryableFailure(o)

Elapsed == now - bo.start
LastOf(q) == q[Len(q)]
CallsOf(api) == {i \in 1..Len(log) : log[i].api = api}
\* the active Retry is the first one of the invocation and its closure makes
\* one remote call, so that invocation k got script0[k]
FirstSingleCallRetry ==
    /\ site \in HandledSites \cup NLPatchSites
    /\ Len(log) = Len(tried)

\* C1: the classifier returns a Retryable (bare, not Permanent-wrapped) error
\* if and only if the error carries a status code in {429, 500, 503, 509}; for
\* every other code and for an error without a code it returns Permanent.
C1_ClassifierIffRetryableCode ==
    pc = "probed" =>
        (~probeRes.permanent <=>
            (probeErr.odata /\ probeErr.code \in {429, 500, 503, 509}))

C1_Witness ==
    /\ pc = "probed"
    /\ probeErr = ODataError(509)
    /\ ~probeRes.permanent
    /\ probeRes.err = probeErr

\* C2: when the first invocation of an operation classified by handleAPIError
\* fails with a Permanent failure, backoff.Retry returns that failure at once:
\* one invocation, no backoff wait, no time spent beyond the call itself.
C2_PermanentFirstAttemptReturnsAtOnce ==
    (/\ site \in HandledSites
     /\ pc \in {"backoff", "returned"}
     /\ PermanentFailure(tried[1]))
    => /\ pc = "returned"
       /\ Len(tried) = 1
       /\ nwaits = 0
       /\ waited = 0
       /\ ret.failed
       /\ ret.err = tried[1]
       /\ Elapsed = lat

C2_Witness ==
    /\ site = "amp_create_patch"
    /\ pc = "returned"
    /\ tried = <<PlainError>>
    /\ ret.failed
    /\ nwaits = 0

\* C3: in every operation wrapped in backoff.Retry, a remote failure that is
\* Permanent (status code outside {429, 500, 503, 509}, or none) is propagated
\* at once: Retry never waits to retry after such a failure.
C3_PermanentRemoteErrorNeverRetried ==
    pc = "backoff" => ~PermanentFailure(LastOf(tried))

\* C4 (as claimed): an operation that always fails Retryable is retried until
\* the elapsed time is at least the max elapsed time (30 s), and Retry then
\* returns a failure with the elapsed time over 30 s by at most one backoff
\* interval.
C4_OvershootAtMostOneInterval ==
    (/\ pc = "returned"
     /\ ret.failed
     /\ \A i \in 1..Len(tried) : RetryableFailure(tried[i]))
    => /\ Elapsed >= 30000
       /\ Elapsed <= 30000 + wait

\* C4 (amended): ... with the elapsed time over 30 s by at most one backoff
\* interval plus the duration of the last invocation of the operation.
C4_OvershootAtMostIntervalAndAttempt ==
    (/\ pc = "returned"
     /\ ret.failed
     /\ \A i \in 1..Len(tried) : RetryableFailure(tried[i]))
    => /\ Elapsed > 30000
       /\ Elapsed <= 30000 + wait + lastDur
       /\ nwaits = Len(tried) - 1

C4_Witness ==
    /\ pc = "returned"
    /\ ret.failed
    /\ site = "amp_create_patch"
    /\ \A i \in 1..Len(tried) : RetryableFailure(tried[i])
    /\ Elapsed > 30000 + wait
    /\ nwaits >= 8

\* C5: an operation that fails once with a Retryable failure and then succeeds
\* makes Retry return success after exactly one retry: two invocations, one
\* backoff wait between them.
C5_FailOnceThenSucceed ==
    (/\ FirstSingleCallRetry
     /\ pc = "returned"
     /\ Len(script0) = 2
     /\ RetryableFailure(script0[1])
     /\ script0[2].ok)
    => /\ ~ret.failed
       /\ Len(tried) = 2
       /\ nwaits = 1
       /\ waited = wait
       /\ wait \in {250, 750}
       /\ Elapsed = waited + 2 * lat

C5_Witness ==
    /\ site = "as_list"
    /\ pc = "returned"
    /\ tried = <<ODataError(429), OK>>
    /\ ~ret.failed
    /\ nwaits = 1

\* C6 (as claimed): in every retry loop (each backoff.Retry and the untrust
\* PATCH loop of Delete) the time spent retrying never exceeds 30 s.
C6_RetryTimeWithinBudget ==
    /\ waited <= 30000
    /\ del.slept <= 30000

\* C6 (amended): a backoff.Retry starts a backoff wait only while the elapsed
\* time is at most 30 s, so its waits add up to at most 30 s plus the last
\* interval; the untrust PATCH loop of Delete makes at most 5 attempts and
\* sleeps at most 2 + 4 + 8 + 16 + 32 = 62 s.
C6_WaitsStartWithinBudget ==
    /\ pc = "backoff" => Elapsed <= 30000
    /\ waited <= 30000 + wait
    /\ del.i <= 5
    /\ del.slept <= 62000

C6_Witness ==
    /\ pc = "returned"
    /\ ret.exhausted
    /\ waited > 30000

\* C7 (as claimed): when the budget is exhausted during Retryable failures the
\* failure surfaced is a distinct budget-exhausted failure, not the remote
\* error of an attempt.
C7_ExhaustionIsDistinctFailure ==
    (pc = "returned" /\ ret.exhausted) => ret.err # LastOf(tried)

\* the summary under which the handler reports a failure of the call site,
\* whatever the failure
FailureSummary(s) ==
    CASE s = "amp_create_patch" -> "Unable to Create Authentication Method Policy"
      [] s = "amp_disable_patch" -> "Unable to Delete Authentication Method Policy"
      [] s = "amp_get" -> "Unable to Read Authentication Method Policy"
      [] s = "as_list" -> "Unable to Retrieve Authentication Strength Policy"
      [] s = "nl_create_ip" -> "Failed to create IP named location."
      [] s = "nl_create_country" -> "Failed to create country named location."
      [] OTHER -> "Failed to update named location."

\* C7 (amended): when the budget is exhausted Retry returns the last error of
\* the operation itself, reported under the same diagnostic as a Permanent
\* rejection; for an operation classified by handleAPIError the two differ
\* only in the error's status code: in {429, 500, 503, 509} after exhaustion,
\* outside it or absent for a Permanent rejection.
C7_ExhaustionSurfacesLastError ==
    /\ (pc \in {"returned", "done"} /\ ret.exhausted)
           => (ret.failed /\ ret.err = LastOf(tried))
    /\ (pc = "done" /\ ret.failed) => LastOf(diag) = Diag(FailureSummary(site), ret.err)
    /\ (pc = "returned" /\ ret.failed /\ site \in HandledSites)
           => (ret.exhausted <=> RetryableFailure(ret.err))

C7_Witness ==
    /\ pc = "done"
    /\ ret.exhausted
    /\ site = "amp_create_patch"
    /\ LastOf(diag) = Diag("Unable to Create Authentication Method Policy",
                           ODataError(429))

\* the named locations that were there before the Create
Preexisting == SelectSeq(nlRemote, LAMBDA l : l.id # NewID)

\* C8: a Create of a named location that succeeds is idempotent by display
\* name: with no remote location of that name exactly one create call took
\* effect (one that succeeded is the last call) and the new location's ID is
\* recorded;
\* with one, no create call was issued and the existing location's ID is
\* recorded.
C8_CreateIdempotentByName ==
    (/\ handler = "NLCreate"
     /\ pc = "done"
     /\ stateSet
     /\ plan.ip.present \/ plan.country.present)
    => IF \E i \in 1..Len(Preexisting) : Preexisting[i].name = plan.name
          THEN /\ CallsOf("POST namedLocations") = {}
               /\ \E i \in 1..Len(Preexisting) :
                      /\ Preexisting[i].name = plan.name
                      /\ tfstate.id = FullID(Preexisting[i].id)
               /\ nlRemote = Preexisting
          ELSE /\ Cardinality({i \in CallsOf("POST namedLocations") :
                                   log[i].out.applied}) = 1
               /\ {i \in CallsOf("POST namedLocations") : log[i].out.ok}
                      \subseteq {Len(log)}
               /\ tfstate.id = FullID(NewID)
               /\ Len(nlRemote) = Len(Preexisting) + 1
               /\ LastOf(nlRemote).name = plan.name

C8_Witness ==
    /\ handler = "NLCreate"
    /\ pc = "done"
    /\ stateSet
    /\ Len(Preexisting) = 2
    /\ tfstate.id = FullID("a")
    /\ CallsOf("POST namedLocations") = {}

\* C9: Delete of an IP-based location recorded as trusted issues the DELETE
\* call only after an untrust PATCH succeeded and the settle interval (60 s)
\* after it has passed.
C9_UntrustBeforeDelete ==
    (/\ handler = "NLDelete"
     /\ prior.ip.present
     /\ prior.ip.trusted = "true"
     /\ CallsOf("DELETE namedLocation") # {})
    => /\ patchOkAt # -1
       /\ deleteAt >= patchOkAt + 60000
       /\ \A d \in CallsOf("DELETE namedLocation") :
              \E i \in 1..(d - 1) :
                  /\ log[i].api = "PATCH namedLocation"
                  /\ log[i].out.ok

C9_Witness ==
    /\ handler = "NLDelete"
    /\ pc = "done"
    /\ Len(log) = 3
    /\ ~log[1].out.ok
    /\ log[2].api = "PATCH namedLocation" /\ log[2].out.ok
    /\ log[3].api = "DELETE namedLocation"

\* C10: a Create, Update or Delete proceeds only on success: state is written
\* only if no Retry of the transition failed, and after a Permanent failure of
\* a remote call the transition issues no further remote call and ends with an
\* error diagnostic.
C10_PermanentFailureHalts ==
    handler \in {"AMPCreate", "AMPUpdate", "AMPDelete", "NLCreate", "NLUpdate", "NLDelete"}
    => /\ stateSet => (~ret.failed /\ diag = NoDiag)
       /\ \A i \in 1..Len(log) : PermanentFailure(log[i].out) => i = Len(log)
       /\ (pc = "done" /\ \E i \in 1..Len(log) : PermanentFailure(log[i].out))
              => diag # NoDiag

\* the part of C10 that does not rest on the classification of failures
C10_StateOnlyOnSuccess ==
    /\ stateSet => (~ret.failed /\ diag = NoDiag /\ pc = "done")
    /\ (pc = "done" /\ ret.failed) => (diag # NoDiag /\ ~stateSet)

\* C11: a Retryable failure (429, 500, 503, 509) of any remote call of an
\* operation is absorbed by the Retry Executor: it is reported to the caller
\* only when a Retry ran out of its time budget.  This includes the GET of the
\* named location Read and the DELETE of the named location Delete.
C11_RetryableSurfacedOnlyOnExhaustion ==
    \A i \in 1..Len(diag) :
        (diag[i].api /\ RetryableFailure(diag[i].err)) => ret.exhausted

\* the part of C11 that holds: the calls that are wrapped in backoff.Retry
C11_WrappedCallsAbsorb ==
    (site # "none" /\ pc = "done")
    => \A i \in 1..Len(diag) :
           (diag[i].api /\ RetryableFailure(diag[i].err)) => ret.exhausted

\* the variant of a named location model
VariantOf(m) == IF m.ip.present THEN "ip" ELSE "country"

\* C12: after a successful Update every remotely stored field has the desired
\* value, and a field the desired state leaves out has its default: an omitted
\* excluded_group_ids leaves the remote exclude list empty, an omitted trusted
\* flag leaves the remote flag false.
C12_UpdateIsFullReplace ==
    /\ (handler = "AMPUpdate" /\ pc = "done" /\ stateSet)
           => /\ ampRemote.state = plan.state
              /\ ampRemote.excludeTargets =
                     (IF plan.excluded.null THEN << >> ELSE plan.excluded.ids)
    /\ (handler = "NLUpdate" /\ pc = "done" /\ stateSet
            /\ (plan.ip.present \/ plan.country.present))
           => /\ Len(nlRemote) = 1
              /\ nlRemote[1].name = plan.name
              /\ nlRemote[1].variant = VariantOf(plan)
              /\ nlRemote[1].trusted = (plan.ip.present /\ plan.ip.trusted = "true")

\* the part of C12 about the authentication method policy
C12_PolicyUpdateIsFullReplace ==
    (handler = "AMPUpdate" /\ pc = "done" /\ stateSet)
    => /\ ampRemote.state = plan.state
       /\ ampRemote.excludeTargets =
              (IF plan.excluded.null THEN << >> ELSE plan.excluded.ids)

\* C13: Update of a named location patches the variant of the desired state,
\* and when the desired variant differs from the variant of the existing
\* location and the remote rejects the PATCH with a Permanent error, the error
\* is returned without a retry.
C13_WrongVariantNotRetried ==
    handler = "NLUpdate"
    => /\ site = "nl_patch_ip" => plan.ip.present
       /\ site = "nl_patch_country" => (~plan.ip.present /\ plan.country.present)
       /\ (/\ site \in NLPatchSites
           /\ VariantOf(plan) # VariantOf(prior)
           /\ tried # << >>
           /\ PermanentFailure(tried[1]))
          => (pc # "backoff" /\ Len(tried) = 1)

\* a desired state or configuration with an input error
InputError ==
    CASE handler \in {"AMPCreate", "AMPUpdate"} ->
             plan.type = "Bogus" \/ plan.state = "bogus"
      [] handler \in {"NLCreate", "NLUpdate"} ->
             \/ plan.ip.present /\ plan.country.present
             \/ plan.ip.present /\ plan.ip.ranges = <<"10.0.0.0/33">>
             \/ plan.country.present /\ plan.country.lookup = "bogus"
      [] handler = "ASRead" -> plan.ids.ids # << >> /\ plan.names.ids # << >>
      [] OTHER -> FALSE

\* C14: an input error is detected before any remote call of the operation:
\* no remote call is ever issued, nothing is retried, and the operation ends
\* with an error diagnostic that reports no API error.
C14_InputErrorBeforeRemoteCall ==
    InputError
    => /\ log = << >>
       /\ nwaits = 0
       /\ pc = "done" => (/\ diag # NoDiag
                          /\ ~stateSet
                          /\ \A i \in 1..Len(diag) : ~diag[i].api)

\* the successful create calls of the log
CreatedCalls ==
    {i \in CallsOf("POST namedLocations") : log[i].out.ok /\ log[i].out.withID}

C16_CreateIssuesOneCallWithDesiredTargets ==
    (/\ handler = "AMPCreate"
     /\ pc = "done"
     /\ ~InputError
     /\ script0[1].ok)
    => /\ Len(log) = 1
       /\ log[1].api = "PATCH authenticationMethodConfiguration"
       /\ ampRemote.state = plan.state
       /\ ampRemote.excludeTargets =
              (IF plan.excluded.null THEN << >> ELSE plan.excluded.ids)
       /\ stateSet
       /\ tfstate = plan
       /\ diag = NoDiag

C16_Witness ==
    /\ handler = "AMPCreate"
    /\ pc = "done"
    /\ plan = AMPModel("Fido2", "enabled", ListOf(<< >>))
    /\ Len(log) = 1
    /\ ampRemote = AMPRemote("enabled", << >>)
    /\ tfstate.excluded = ListOf(<< >>)

\* C17: no failure is swallowed: an operation that ends without an error
\* diagnostic had no Retry fail and its last remote call succeed, wrote its
\* state (Delete writes none), and a Create that ends so has issued or adopted
\* a remote resource and recorded its ID.
C17_NoFailureSwallowed ==
    (pc = "done" /\ diag = NoDiag)
    => /\ ~ret.failed
       /\ log # << >> => LastOf(log).out.ok
       /\ handler \notin {"AMPDelete", "NLDelete"} => stateSet
       /\ handler = "NLCreate"
              => /\ log # << >>
                 /\ tfstate.id # UnknownID
                 /\ \E i \in 1..Len(nlRemote) : FullID(nlRemote[i].id) = tfstate.id
       /\ handler = "AMPCreate" => log # << >>

\* the part of C17 that holds: a failed Retry or a failed last call always
\* ends with an error diagnostic and no state
C17_FailedCallsReported ==
    (pc = "done" /\ (ret.failed \/ (log # << >> /\ ~LastOf(log).out.ok)))
    => (diag # NoDiag /\ ~stateSet)

\* a backoff.Retry is running
InRetry == pc \in {"attempt", "post", "backoff"}

\* the three ways a backoff.Retry ends
RetrySucceeded == ret.returned /\ ~ret.failed /\ LastOf(tried).ok
RetryFailedPermanently == ret.returned /\ ret.failed /\ ~ret.exhausted
RetryExhausted ==
    ret.returned /\ ret.failed /\ ret.exhausted /\ Elapsed > 30000

\* C18: every backoff.Retry that is entered returns, after a bounded number of
\* backoff waits, and it returns in exactly one of three ways: success, a
\* permanent failure, or exhaustion of the elapsed-time budget.
C18_RetryTerminatesInOneOutcome ==
    /\ [](nwaits <= 11)
    /\ [](pc = "returned" =>
            /\ tried # << >>
            /\ \/ RetrySucceeded /\ ~RetryFailedPermanently /\ ~RetryExhausted
               \/ ~RetrySucceeded /\ RetryFailedPermanently /\ ~RetryExhausted
               \/ ~RetrySucceeded /\ ~RetryFailedPermanently /\ RetryExhausted)
    /\ [](InRetry => ~ret.returned)
    /\ (InRetry ~> pc = "returned")

C18_Witness ==
    /\ pc = "returned"
    /\ RetryExhausted
    /\ nwaits = 11

\* both concurrent invocations are over
BothDone == \A i \in 1..2 : cc.p[i].pc = "done"

\* C19: two concurrent Creates of named locations with different display
\* names, whatever the interleaving and however often their create calls are
\* rate-limited first: an invocation that is over wrote its state with the ID
\* of a remote location of its own display name, the two record different IDs,
\* and when both are over exactly one remote location exists per display name.
C19_ConcurrentCreatesOfDifferentNames ==
    (handler = "NLCreateCC" /\ cc.p[1].name # cc.p[2].name)
    => /\ \A i \in 1..2 :
            cc.p[i].pc = "done"
            => /\ ~cc.p[i].failed
               /\ cc.p[i].stateSet
               /\ \E k \in 1..Len(cc.remote) :
                     /\ cc.p[i].id = FullID(cc.remote[k].id)
                     /\ cc.remote[k].name = cc.p[i].name
       /\ BothDone
            => /\ cc.p[1].id # cc.p[2].id
               /\ \A i \in 1..2 :
                     Cardinality({k \in 1..Len(cc.remote) :
                                     cc.remote[k].name = cc.p[i].name}) = 1

C19_Witness ==
    /\ handler = "NLCreateCC"
    /\ cc.p[1].name # cc.p[2].name
    /\ BothDone
    /\ cc.p[1].posts = 3
    /\ cc.p[2].posts = 1
    /\ Len(cc.remote) = 2
    /\ cc.p[1].id = FullID(2)
    /\ cc.p[2].id = FullID(1)

\* C20: every element of the groups output of the groups data source is the
\* display name and the id of one single group of the remote, and that group
\* has both a name and an id.
C20_GroupsOutputPairsOneRemoteGroup ==
    (handler = "GroupsRead" /\ pc = "done" /\ stateSet)
    => \A k \in 1..Len(tfstate.groups) :
          \E j \in 1..Len(grRemote) :
             /\ ~grRemote[j].name.nil
             /\ ~grRemote[j].id.nil
             /\ tfstate.groups[k].display_name = grRemote[j].name.v
             /\ tfstate.groups[k].id = grRemote[j].id.v

C20_Witness ==
    /\ handler = "GroupsRead"
    /\ pc = "done"
    /\ stateSet
    /\ \E j \in 1..Len(grRemote) : grRemote[j].id.nil
    /\ \E j \in 1..Len(grRemote) : grRemote[j].name.nil
    /\ tfstate.groups = <<[display_name |-> <<"a", "1">>, id |-> <<"3">>]>>

\* C21: the auth_strengths data source fails before any remote call when both
\* 'ids' and 'names' are non-empty; otherwise a Read that writes state outputs
\* the remote policies whose display name is in 'names' when that is
\* non-empty, those whose id is in 'ids' when that is non-empty, and all of
\* them when both are empty, in the order of the response; and the output
\* lists 'ids', 'names' and 'auth_strengths' describe the same policies in the
\* same order.
C21_AuthStrengthsSelection ==
    (handler = "ASRead" /\ pc = "done")
    => LET names == plan.names.ids
           ids == plan.ids.ids
           Wanted(p) == IF names # << >> THEN \E i \in 1..Len(names) : names[i] = p.name
                        ELSE IF ids # << >> THEN \E i \in 1..Len(ids) : ids[i] = p.id
                        ELSE TRUE
           want == SelectSeq(asRemote, Wanted)
       IN /\ (names # << >> /\ ids # << >>)
                => (log = << >> /\ ~stateSet /\ diag # NoDiag)
          /\ stateSet
                => /\ Len(tfstate.authStrengths) = Len(want)
                   /\ Len(tfstate.ids.ids) = Len(want)
                   /\ Len(tfstate.names.ids) = Len(want)
                   /\ \A i \in 1..Len(want) :
                         /\ tfstate.authStrengths[i].name = want[i].name
                         /\ tfstate.authStrengths[i].id = ASFullID(want[i].id)
                         /\ tfstate.names.ids[i] = want[i].name
                         /\ tfstate.ids.ids[i] = ASFullID(want[i].id)

C21_Witness ==
    /\ handler = "ASRead"
    /\ pc = "done"
    /\ stateSet
    /\ plan.ids.ids = <<"p3", "p1">>
    /\ tfstate.ids.ids = <<ASFullID("p1"), ASFullID("p3")>>
    /\ tfstate.names.ids = <<"x", "x">>
    /\ Len(tfstate.authStrengths) = 2

\* a Read of the groups data source by display names whose list call succeeded
GroupsByNamesAnswered ==
    /\ handler = "GroupsRead"
    /\ pc = "done"
    /\ Len(plan.names) > 0
    /\ log # << >>
    /\ log[1].out.ok

\* the positions of grRemote the list call returns: those the mail_enabled
\* filter lets through
Answered ==
    {j \in 1..Len(grRemote) :
        plan.mailEnabled # "null" => grRemote[j].mail = (plan.mailEnabled = "true")}

\* the first answered group with name and id of display name n, 0 if none
FirstNamed(n) ==
    LET hits == {j \in Answered : /\ ~grRemote[j].name.nil
                                  /\ ~grRemote[j].id.nil
                                  /\ grRemote[j].name.v = n}
    IN IF hits = {} THEN 0 ELSE CHOOSE j \in hits : \A k \in hits : j <= k

\* the groups output holds exactly the first answered group of each name of
\* the set, once each
OutputsFound(names) ==
    LET found == {FirstNamed(n) : n \in names} \ {0}
    IN /\ Len(tfstate.groups) = Cardinality(found)
       /\ \A j \in found :
             \E k \in 1..Len(tfstate.groups) :
                /\ tfstate.groups[k].display_name = grRemote[j].name.v
                /\ tfstate.groups[k].id = grRemote[j].id.v

\* C22 as stated: with display_names set and the list call answered, a
\* requested display name that no remote group has makes Read fail with
\* Missing Groups and write no state unless ignore_missing is true, and with
\* ignore_missing true Read succeeds and outputs exactly the groups found.
C22_MissingGroupsFail ==
    GroupsByNamesAnswered
    => LET requested == {plan.names[i] : i \in 1..Len(plan.names)}
           Unmatched(n) == \A j \in 1..Len(grRemote) :
                              grRemote[j].name.nil \/ grRemote[j].name.v # n
       IN /\ ((\E n \in requested : Unmatched(n)) /\ plan.ignoreMissing # "true")
                => (/\ ~stateSet
                    /\ Len(diag) = 1
                    /\ diag[1].summary = "Missing Groups")
          /\ plan.ignoreMissing = "true"
                => (stateSet /\ diag = NoDiag /\ OutputsFound(requested))

\* C22, amended: the requested display names that count are the non-empty
\* ones, and a name is found when the answer of the list call holds a group of
\* that name with an id. A non-empty requested name that is not found makes
\* Read fail with Missing Groups and write no state unless ignore_missing is
\* true; otherwise Read succeeds and outputs exactly the first group found of
\* each requested name.
C22_MissingNonEmptyNamesFail ==
    GroupsByNamesAnswered
    => LET requested == {plan.names[i] : i \in 1..Len(plan.names)} \ {<< >>}
           missing == \E n \in requested : FirstNamed(n) = 0
       IN IF missing /\ plan.ignoreMissing # "true"
             THEN /\ ~stateSet
                  /\ Len(diag) = 1
                  /\ diag[1].summary = "Missing Groups"
             ELSE /\ stateSet
                  /\ diag = NoDiag
                  /\ OutputsFound(requested)

C22_Witness ==
    /\ GroupsByNamesAnswered
    /\ plan.names = << <<"a", "1">>, <<"z">>, << >> >>
    /\ plan.ignoreMissing = "true"
    /\ \E j \in 1..Len(grRemote) : grRemote[j].id.nil
    /\ stateSet
    /\ tfstate.groups = <<[display_name |-> <<"a", "1">>, id |-> <<"3">>]>>

\* the named locations of the desired display name that the Create made
CreatedByName ==
    {i \in 1..Len(nlRemote) : nlRemote[i].id = NewID /\ nlRemote[i].name = plan.name}

C24_CreatedStateMatchesRemote ==
    (/\ handler = "NLCreate"
     /\ pc = "done"
     /\ stateSet
     /\ plan.ip.present # plan.country.present)
    => \E i \in 1..Len(nlRemote) :
          /\ FullID(nlRemote[i].id) = tfstate.id
          /\ nlRemote[i].name = tfstate.name
          /\ nlRemote[i].variant = (IF tfstate.ip.present THEN "ip" ELSE "country")
          /\ tfstate.ip.present => nlRemote[i].trusted = (tfstate.ip.trusted = "true")

\* the part of C24 that holds: a Create that made its location by a create
\* call records the variant and configuration the remote has
C24_NewlyCreatedStateMatchesRemote ==
    (/\ handler = "NLCreate"
     /\ pc = "done"
     /\ stateSet
     /\ plan.ip.present # plan.country.present
     /\ tfstate.id = FullID(NewID))
    => \E i \in 1..Len(nlRemote) :
          /\ nlRemote[i].id = NewID
          /\ nlRemote[i].name = tfstate.name
          /\ nlRemote[i].variant = (IF tfstate.ip.present THEN "ip" ELSE "country")
          /\ tfstate.ip.present => nlRemote[i].trusted = (tfstate.ip.trusted = "true")

\* the remote policy an Update of the authentication method policy started with
AMPRemoteBefore == AMPRemote(prior.state, listOfStringsToSlice(prior.excluded))

\* the PATCH calls of the log that were answered with success
PatchesDone ==
    {i \in CallsOf("PATCH authenticationMethodConfiguration") : log[i].out.ok}

\* C25: an Update of an authentication method policy with a valid desired
\* state that ends with an error leaves the remote policy as it was before the
\* Update; the desired-configuration PATCH is issued only after the
\* disable-and-clear PATCH succeeded, and state is written only after both
\* succeeded.
C25_UpdateErrorLeavesRemoteUnchanged ==
    (handler = "AMPUpdate" /\ ~InputError)
    => /\ (pc = "done" /\ diag # NoDiag) => ampRemote = AMPRemoteBefore
       /\ site = "amp_create_patch" => Cardinality(PatchesDone) >= 1
       /\ stateSet => Cardinality(PatchesDone) = 2

\* the part of C25 that holds: the order of the two PATCH calls and of the
\* state write, and an Update that fails in its first PATCH changes nothing
C25_UpdateStepsInOrder ==
    (handler = "AMPUpdate" /\ ~InputError)
    => /\ site = "amp_create_patch" => Cardinality(PatchesDone) >= 1
       /\ stateSet => (Cardinality(PatchesDone) = 2 /\ diag = NoDiag)
       /\ (pc = "done" /\ diag # NoDiag) => ~stateSet
       /\ (pc = "done" /\ PatchesDone = {}) => ampRemote = AMPRemoteBefore

\* a Read that followed a successful Create has written its state
ReadAfterCreateDone == pc = "read" /\ diag = NoDiag

\* C26: a Read that follows a successful Create of a named location ends
\* without a fault (it never writes through an absent ip or country block),
\* and the state it records has exactly one of the two blocks, the one of the
\* variant the remote location has.
C26_ReadAfterCreateKeepsOneBlock ==
    handler = "NLCreate"
    => /\ pc # "panic"
       /\ ReadAfterCreateDone
             => /\ tfstate.ip.present # tfstate.country.present
                /\ \E i \in 1..Len(nlRemote) :
                      /\ FullID(nlRemote[i].id) = tfstate.id
                      /\ nlRemote[i].variant = VariantOf(tfstate)

\* the part of C26 that holds: after a Create that made its location by a
\* create call, Read ends without a fault and records exactly the block of
\* the remote variant
C26_ReadAfterNewlyCreatedKeepsOneBlock ==
    (handler = "NLCreate" /\ plan.id = FullID(NewID))
    => /\ pc # "panic"
       /\ ReadAfterCreateDone
             => /\ tfstate.ip.present # tfstate.country.present
                /\ \E i \in 1..Len(nlRemote) :
                      /\ nlRemote[i].id = NewID
                      /\ nlRemote[i].variant = VariantOf(tfstate)

\* C27: Create followed at once by Read, with no remote change in between,
\* leaves the recorded state equal to the state Create recorded, for the
\* authentication method policy and for named locations with one block that
\* were made by a create call, whatever optional fields the desired state
\* leaves out or leaves empty.
C27_CreateReadRoundTrip ==
    (/\ handler \in {"AMPCreate", "NLCreate"}
     /\ ReadAfterCreateDone
     /\ handler = "NLCreate" => (/\ plan.id = FullID(NewID)
                                 /\ plan.ip.present # plan.country.present))
    => tfstate = plan

\* the part of C27 that holds: the round trip of a desired state that sets
\* every optional field the Read fills in (a non-empty excluded group list;
\* the trusted flag of an IP location made by a create call)
C27_CreateReadRoundTripOfFullState ==
    /\ (/\ handler = "AMPCreate"
        /\ ReadAfterCreateDone
        /\ ~plan.excluded.null
        /\ plan.excluded.ids # << >>)
       => tfstate = plan
    /\ (/\ handler = "NLCreate"
        /\ ReadAfterCreateDone
        /\ plan.id = FullID(NewID)
        /\ plan.ip.present
        /\ ~plan.country.present
        /\ plan.ip.trusted # "null")
       => tfstate = plan

\* the remote locations of the display name of invocation i
NamedLike(i) == {k \in 1..Len(cc.remote) : cc.remote[k].name = cc.p[i].name}

\* C28: two concurrent Creates of named locations with the same display name,
\* whatever the interleaving: when both are over at most one remote location
\* of that name exists and both recorded the same ID.
C28_SameNameCreatesConverge ==
    (handler = "NLCreateCC" /\ cc.p[1].name = cc.p[2].name /\ BothDone)
    => /\ Cardinality(NamedLike(1)) <= 1
       /\ cc.p[1].id = cc.p[2].id

\* the part of C28 that holds: each invocation records the ID of a location of
\* the name, at most two exist, and with one location both record its ID
C28_SameNameCreatesAtMostTwo ==
    (handler = "NLCreateCC" /\ cc.p[1].name = cc.p[2].name /\ BothDone)
    => /\ Cardinality(NamedLike(1)) \in {1, 2}
       /\ \A i \in 1..2 : \E k \in NamedLike(i) : cc.p[i].id = FullID(cc.remote[k].id)
       /\ Cardinality(NamedLike(1)) = 1 => cc.p[1].id = cc.p[2].id

\* the untrust PATCH calls of a Delete, which are the first calls of its log
UntrustCalls == CallsOf("PATCH namedLocation")

\* C29: Delete of a named location recorded as a trusted IP location attempts
\* the untrust PATCH at most 5 times and not again after a success; the k-th
\* failure is followed by a wait of 2, 4, 8, 16, 32 seconds (k = 1..5); after
\* 5 failures Delete ends with an error and without a DELETE call. Delete of a
\* country location or of an IP location not recorded as trusted issues no
\* PATCH and exactly one DELETE call.
C29_UntrustLoopBounded ==
    handler = "NLDelete"
    => IF prior.ip.present /\ prior.ip.trusted = "true"
          THEN /\ Cardinality(UntrustCalls) <= 5
               /\ \A k \in UntrustCalls :
                     /\ log[k].out.ok => \A j \in UntrustCalls : j <= k
                     /\ (~log[k].out.ok /\ k + 1 \in UntrustCalls)
                           => log[k + 1].at = log[k].at + 2000 * (2 ^ (k - 1)) + lat
               /\ (Cardinality(UntrustCalls) = 5 /\ ~log[5].out.ok)
                     => /\ pc = "done"
                        /\ now = log[5].at + 32000
                        /\ diag # NoDiag
                        /\ CallsOf("DELETE namedLocation") = {}
          ELSE /\ UntrustCalls = {}
               /\ Cardinality(CallsOf("DELETE namedLocation")) <= 1
               /\ pc = "done" => Cardinality(CallsOf("DELETE namedLocation")) = 1

C29_Witness ==
    /\ handler = "NLDelete"
    /\ pc = "done"
    /\ lat = CallLatency
    /\ Len(log) = 5
    /\ \A k \in 1..5 : log[k].api = "PATCH namedLocation" /\ ~log[k].out.ok
    /\ now = 5 * CallLatency + 62000
    /\ diag # NoDiag
=============================================================================
